---- MODULE Spec2Model ----
(***************************************************************************)
(* Model of blob-event (src/src/lib.rs): Event<Args>, a thread-safe        *)
(* publish/subscribe primitive.  An Event is an Arc<Mutex<EventHandlers>>; *)
(* EventHandlers is a HashMap<Subscription, Box<dyn EventHandler>> plus a  *)
(* next_id counter.  Threads call subscribe, unsubscribe, unsubscribe_all, *)
(* invoke and subscriber_count through Event values that may be clones of  *)
(* one another.                                                            *)
(*                                                                         *)
(* Every critical section that runs no user code is one atomic step        *)
(* (lock, body, unlock).  The handler call inside invoke runs user code    *)
(* with the lock held, so it spans two steps: invoke_turn takes the lock   *)
(* and looks the handler up, handler_return runs the handler's effect and  *)
(* drops the guard.  A handler whose closure calls an Event itself makes   *)
(* that call as a step of its own in between, and a handler that panics    *)
(* unwinds the thread's stack one invoke at a time, poisoning each mutex   *)
(* as its guard is dropped.                                                *)
(***************************************************************************)
EXTENDS Integers, Sequences, FiniteSets, TLC

\* ---- bounds of the model ------------------------------------------------
NumThreads == 2      \* threads operating on the events
MaxEvents  == 2      \* Event values (originals and clones) ever created
MaxRegs    == 2      \* registries (Event::new calls) ever created
MaxSubs    == 2      \* subscribe calls per registry (caps next_id, a usize:
                     \* its wrap-around lies beyond every bound used here)
MaxCalls   == 4      \* API calls made in all, by all threads together
NumArgs    == 2      \* distinct payload values passed to invoke
NumInvokes == 2      \* invoke calls per thread in SpecInvoke (the M of N x M)
MaxCallers == 1      \* closures subscribed per bus in SpecHandlers

Threads    == 1..NumThreads
Events     == 1..MaxEvents
Registries == 1..MaxRegs
ArgValues  == 1..NumArgs
\* Subscription values a caller can present: every id subscribe can return
\* here, plus one that is never issued (Subscription::new(9999) in the tests).
Ids        == 0..MaxSubs

VARIABLES
  arc,        \* Event.handlers: the registry each Event value created so far
              \* points to (a sequence indexed by Event)
  nregs,      \* number of registries allocated so far
  handlers,   \* EventHandlers.handlers of each registry: id -> closure
  next_id,    \* EventHandlers.next_id of each registry
  lock,       \* the Mutex of each registry: the set of threads holding a guard
  counter,    \* per registry, the counters captured by the closures
  runs,       \* per registry, how many times each closure has run its body
  pc,         \* position of each thread: "idle", "inv_loop", "inv_call"
              \* (handler entered), "inv_ret" (the call the handler made
              \* has returned), "inv_panic" (the handler call is panicking,
              \* the guard not yet dropped)
  self,       \* the Event the thread's current invoke was called on
  args,       \* the args of the thread's current invoke
  ids,        \* the rest of the ids vector of the thread's current invoke
  ops,        \* number of API calls the thread has started
  \* history variables
  issued,     \* per registry, the ids subscribe returned, in order
  unsubRets,  \* per registry and id, the results of unsubscribe(id) calls
              \* made once the id was issued, in order
  strayRets,  \* per registry, the <<id, result>> of unsubscribe calls made
              \* with an id the registry had not issued
  foreignRets,\* per registry, <<result, entries removed>> of the unsubscribe
              \* calls made with a Subscription another registry returned
  countRets,  \* per registry, <<result, handles issued and not yet removed>>
              \* of the subscriber_count calls
  cleared,    \* per registry, the ids unsubscribe_all removed
  quiet,      \* per registry: unsubscribe_all completed, no subscribe since
  unsubFrames,\* per registry, what each unsubscribe call did besides removing
              \* its own entry: <<result, own entry removed, other entries
              \* lost or changed, entries gained, change of next_id>>
  cloneOf,    \* the Event each Event was cloned from (itself for Event::new)
  snap,       \* the ids vector of the thread's current invoke as collected
  snapIssued, \* how many handles the registry had issued when snap was taken
  present,    \* ids of snap found registered when their turn came
  delivered,  \* <<id, value>> of the handler calls of the current invoke
  body,       \* per registry, what the closure of each subscribe does
  outer,      \* per thread, the invokes suspended inside a handler that is
              \* itself running an invoke, innermost first
  poisoned,   \* the poison flag of each registry's Mutex
  postPoison, \* per registry, <<operation, outcome>> of the calls that took
              \* the mutex once it was poisoned
  atPanic     \* per registry, what the first handler panic left behind

vars == <<arc, nregs, handlers, next_id, lock, counter, runs, pc, self, args, ids,
          ops, issued, unsubRets, strayRets, foreignRets, countRets, cleared,
          quiet, unsubFrames, cloneOf,
          snap, snapIssued, present, delivered,
          body, outer, poisoned, postPoison, atPanic>>

regVars    == <<handlers, next_id, lock, counter, runs>>
eventVars  == <<arc, nregs, cloneOf>>
invokeVars == <<self, args, ids, snap, snapIssued, present, delivered>>
histVars   == <<issued, unsubRets, strayRets, foreignRets, countRets, cleared, quiet,
                unsubFrames>>
panicVars  == <<poisoned, postPoison, atPanic>>

\* ---- HashMap<Subscription, Box<dyn EventHandler>> -------------------------
EmptyMap == [k \in {} |-> 0]

insert(m, k, v) == [x \in (DOMAIN m) \cup {k} |-> IF x = k THEN v ELSE m[x]]

contains_key(m, k) == k \in DOMAIN m

\* A lookup that leaves the entry in the map.
remove_keep(m, k) == m

\* A retain with the test inverted: every entry but k's is dropped.
remove_others(m, k) == [x \in (DOMAIN m) \cap {k} |-> m[x]]

remove(m, k) == [x \in (DOMAIN m) \ {k} |-> m[x]]

\* A clear that leaves the map as it is.
clear_keep(m) == m

clear(m) == EmptyMap

keys(m) == DOMAIN m

len(m) == Cardinality(DOMAIN m)

\* A Vec that holds every key twice.
Collect_dup(S) ==
  {s \in [1..(2 * Cardinality(S)) -> S] :
     /\ \A i, j \in 1..Cardinality(S) : s[i] = s[j] => i = j
     /\ \A i \in 1..Cardinality(S) : s[i + Cardinality(S)] = s[i]}

\* Every id there can be, whether or not it is a key: `0..=max` collected.
Collect_range(S) == {[i \in 1..(MaxSubs + 1) |-> i - 1]}

\* keys().copied().collect(): a Vec holding every key once, in the map's
\* iteration order, which is unspecified.
Collect(S) ==
  {s \in [1..Cardinality(S) -> S] : \A i, j \in 1..Cardinality(S) : s[i] = s[j] => i = j}

Range(s) == {s[i] : i \in 1..Len(s)}

\* ---- Mutex ---------------------------------------------------------------
\* A lock that never makes a thread wait.
LockAvailable_always(r) == TRUE

\* One mutex for all the registries together.
LockAvailable_global(r) == \A r2 \in Registries : lock[r2] = {}

\* self.handlers.lock() returns only while no thread holds the mutex, the
\* calling thread included: std promises that a lock() by the thread that
\* holds the guard does not return, and the futex and pthread mutexes behind
\* every target that has threads make it wait.
LockAvailable(r) == lock[r] = {}

\* An unwrap that takes the guard out of a poisoned result all the same.
LockOk_ignore(r) == TRUE

\* lock().unwrap() yields the guard only while the mutex is not poisoned.
LockOk(r) == ~poisoned[r]

\* A guard that is leaked instead of dropped.
DropGuard_leak(l, t) == l

\* The guard of thread t goes out of scope: l is the set of holders.
DropGuard(l, t) == l \ {t}

\* ---- the closures handed to subscribe -----------------------------------
\* A closure adds 1 to its captured counter and then returns (Counting),
\* adds the value it is called with (Adding), adds 1 and calls operation op
\* on the Event e it captured (Calling), or panics (Panicking).
Counting == <<"count">>
Adding == <<"add">>
Calling(op, e) == <<"call", op, e>>
Panicking == <<"panic">>

Operations == {"subscribe", "unsubscribe", "unsubscribe_all", "subscriber_count", "invoke"}

\* ---- Event values -----------------------------------------------------
Allocated(e) == e \in DOMAIN arc

\* The Event value a constructor or clone produces next.
NextEvent == Len(arc) + 1

\* Where a caller got a Subscription from: Subscription::new, or the
\* subscribe of registry r.
MadeUp == <<>>
From(r) == <<r>>

\* The self and args of a thread that is not inside invoke.
NoFrame == <<>>

Init ==
  /\ arc = <<1>>
  /\ nregs = 1
  /\ handlers = [r \in Registries |-> EmptyMap]
  /\ next_id = [r \in Registries |-> 0]
  /\ lock = [r \in Registries |-> {}]
  /\ counter = [r \in Registries |-> [c \in 0..(MaxSubs - 1) |-> 0]]
  /\ runs = [r \in Registries |-> [c \in 0..(MaxSubs - 1) |-> 0]]
  /\ pc = [t \in Threads |-> "idle"]
  /\ self = [t \in Threads |-> NoFrame]
  /\ args = [t \in Threads |-> NoFrame]
  /\ ids = [t \in Threads |-> <<>>]
  /\ ops = [t \in Threads |-> 0]
  /\ issued = [r \in Registries |-> <<>>]
  /\ unsubRets = [r \in Registries |-> [h \in Ids |-> <<>>]]
  /\ strayRets = [r \in Registries |-> {}]
  /\ foreignRets = [r \in Registries |-> {}]
  /\ countRets = [r \in Registries |-> {}]
  /\ cleared = [r \in Registries |-> {}]
  /\ quiet = [r \in Registries |-> FALSE]
  /\ unsubFrames = [r \in Registries |-> {}]
  /\ cloneOf = <<1>>
  /\ snap = [t \in Threads |-> <<>>]
  /\ snapIssued = [t \in Threads |-> 0]
  /\ present = [t \in Threads |-> {}]
  /\ delivered = [t \in Threads |-> <<>>]
  /\ body = [r \in Registries |-> [c \in 0..(MaxSubs - 1) |-> Counting]]
  /\ outer = [t \in Threads |-> <<>>]
  /\ poisoned = [r \in Registries |-> FALSE]
  /\ postPoison = [r \in Registries |-> {}]
  /\ atPanic = [r \in Registries |-> <<>>]

\* ---- Event::new / Default::default -----------------------------------
new ==
  /\ NextEvent \in Events
  /\ nregs < MaxRegs
  /\ arc' = Append(arc, nregs + 1)
  /\ nregs' = nregs + 1
  /\ handlers' = [handlers EXCEPT ![nregs + 1] = EmptyMap]
  /\ next_id' = [next_id EXCEPT ![nregs + 1] = 0]
  /\ cloneOf' = Append(cloneOf, NextEvent)
  /\ UNCHANGED <<lock, counter, runs, pc, ops, invokeVars, histVars, body, outer, panicVars>>

\* A copy of the registry instead of a second pointer to it.
clone_copy(src) ==
  /\ NextEvent \in Events
  /\ Allocated(src)
  /\ nregs < MaxRegs
  /\ LockAvailable(arc[src])
  /\ arc' = Append(arc, nregs + 1)
  /\ nregs' = nregs + 1
  /\ handlers' = [handlers EXCEPT ![nregs + 1] = handlers[arc[src]]]
  /\ next_id' = [next_id EXCEPT ![nregs + 1] = next_id[arc[src]]]
  /\ cloneOf' = Append(cloneOf, src)
  /\ UNCHANGED <<lock, counter, runs, pc, ops, invokeVars, histVars, body, outer, panicVars>>

\* ---- Clone for Event: Arc::clone(&self.handlers) -----------------------
clone(src) ==
  /\ NextEvent \in Events
  /\ Allocated(src)
  /\ arc' = Append(arc, arc[src])
  /\ cloneOf' = Append(cloneOf, src)
  /\ UNCHANGED <<nregs, regVars, pc, ops, invokeVars, histVars, body, outer, panicVars>>

\* The closure stored under id in registry r.
Closure(r, id) == IF contains_key(handlers[r], id) THEN handlers[r][id] ELSE id

\* What the handler thread t has entered does.
Running(t) == body[arc[self[t]]][Closure(arc[self[t]], Head(ids[t]))]

\* Thread t may make the call op on Event e: from its own code, or from the
\* handler it has entered when that is what the closure does.
CanCall(t, e, op) ==
  /\ Allocated(e)
  /\ \/ pc[t] = "idle"
     \/ pc[t] = "inv_call" /\ Running(t) = Calling(op, e)

\* A call that runs no handler returns in the step that made it: to the
\* thread's own code, or into the handler that made it.  ops counts the calls
\* of the thread's own code.
Returned(t) ==
  /\ pc' = [pc EXCEPT ![t] = IF @ = "idle" THEN "idle" ELSE "inv_ret"]
  /\ ops' = [ops EXCEPT ![t] = IF pc[t] = "idle" THEN @ + 1 ELSE @]
  /\ UNCHANGED <<invokeVars, outer>>

\* A call that took the mutex of r after it was poisoned is put on record.
AfterPoison(r, op, outcome) ==
  postPoison' = IF poisoned[r]
                  THEN [postPoison EXCEPT ![r] = @ \cup {<<op, outcome>>}]
                  ELSE postPoison

\* The handles a registry issued and has not removed since.
Removed(r) == {h \in Ids : TRUE \in Range(unsubRets[r][h])} \cup cleared[r]
Live(r) == Range(issued[r]) \ Removed(r)

\* The id subscribe hands out from the map's size instead of the counter.
FreshId_len(r) == len(handlers[r])

\* let id = Subscription(handlers.next_id)
FreshId(r) == next_id[r]

\* ---- Event::subscribe ------------------------------------------------
\* h is what the handler passed in does.  The closure registered by the k-th
\* subscribe of a registry captures the registry's k-th counter (k counted
\* from 0).
subscribe(t, e, h) ==
  LET r  == arc[e]
      id == FreshId(r)
      f  == Len(issued[r])
  IN /\ CanCall(t, e, "subscribe")
     /\ LockAvailable(r)
     /\ LockOk(r)
     /\ Len(issued[r]) < MaxSubs
     /\ next_id' = [next_id EXCEPT ![r] = @ + 1]
     /\ handlers' = [handlers EXCEPT ![r] = insert(@, id, f)]
     /\ body' = [body EXCEPT ![r][f] = h]
     /\ issued' = [issued EXCEPT ![r] = Append(@, id)]
     /\ quiet' = [quiet EXCEPT ![r] = FALSE]
     /\ Returned(t)
     /\ AfterPoison(r, "subscribe", "ok")
     /\ UNCHANGED <<lock, counter, runs, eventVars, unsubRets, strayRets, foreignRets,
                    countRets, cleared, unsubFrames, poisoned, atPanic>>

\* What an unsubscribe(id) that returned ret did to the registry: m and n are
\* the map and next_id before, m2 and n2 after.
Frame(m, m2, n, n2, id, ret) ==
  <<ret,
    contains_key(m, id) /\ ~contains_key(m2, id),
    {x \in keys(m) \ {id} : ~contains_key(m2, x) \/ m2[x] # m[x]},
    keys(m2) \ keys(m),
    n2 - n>>

\* The result of HashMap::remove(&id).is_some() with the test inverted.
is_some_not(m, id) == ~contains_key(m, id)

\* handlers.handlers.remove(&id).is_some()
is_some(m, id) == contains_key(m, id)

\* ---- Event::unsubscribe ----------------------------------------------
\* id is the Subscription presented; src is where the caller got it from:
\* From(r), the subscribe of registry r, or MadeUp for Subscription::new.
unsubscribe(t, e, id, src) ==
  LET r   == arc[e]
      ret == is_some(handlers[r], id)
  IN /\ CanCall(t, e, "unsubscribe")
     /\ LockAvailable(r)
     /\ LockOk(r)
     /\ src # MadeUp => id \in Range(issued[src[1]])
     /\ handlers' = [handlers EXCEPT ![r] = remove(@, id)]
     /\ IF id \in Range(issued[r])
          THEN /\ unsubRets' = [unsubRets EXCEPT ![r][id] = Append(@, ret)]
               /\ UNCHANGED strayRets
          ELSE /\ strayRets' = [strayRets EXCEPT ![r] = @ \cup {<<id, ret>>}]
               /\ UNCHANGED unsubRets
     /\ foreignRets' =
          IF src # MadeUp /\ src # From(r)
            THEN [foreignRets EXCEPT ![r] =
                    @ \cup {<<ret, len(handlers[r]) - len(handlers'[r])>>}]
            ELSE foreignRets
     /\ Returned(t)
     /\ AfterPoison(r, "unsubscribe", "ok")
     /\ UNCHANGED <<next_id, lock, counter, runs, eventVars, issued, countRets, cleared, quiet,
                    body, poisoned, atPanic>>
     /\ unsubFrames' = [unsubFrames EXCEPT ![r] = @ \cup {Frame(handlers[r], handlers'[r],
                                                            next_id[r], next_id'[r], id, ret)}]

\* An unsubscribe_all that also starts the ids over.
unsubscribe_all_reset(t, e) ==
  LET r == arc[e]
  IN /\ CanCall(t, e, "unsubscribe_all")
     /\ LockAvailable(r)
     /\ LockOk(r)
     /\ handlers' = [handlers EXCEPT ![r] = clear(@)]
     /\ next_id' = [next_id EXCEPT ![r] = 0]
     /\ cleared' = [cleared EXCEPT ![r] = @ \cup keys(handlers[r])]
     /\ quiet' = [quiet EXCEPT ![r] = TRUE]
     /\ Returned(t)
     /\ AfterPoison(r, "unsubscribe_all", "ok")
     /\ UNCHANGED <<lock, counter, runs, eventVars, issued, unsubRets, strayRets,
                    foreignRets, countRets, unsubFrames, body, poisoned, atPanic>>

\* ---- Event::unsubscribe_all ------------------------------------------
unsubscribe_all(t, e) ==
  LET r == arc[e]
  IN /\ CanCall(t, e, "unsubscribe_all")
     /\ LockAvailable(r)
     /\ LockOk(r)
     /\ handlers' = [handlers EXCEPT ![r] = clear(@)]
     /\ cleared' = [cleared EXCEPT ![r] = @ \cup keys(handlers[r])]
     /\ quiet' = [quiet EXCEPT ![r] = TRUE]
     /\ Returned(t)
     /\ AfterPoison(r, "unsubscribe_all", "ok")
     /\ UNCHANGED <<next_id, lock, counter, runs, eventVars, issued, unsubRets, strayRets,
                    foreignRets, countRets, unsubFrames, body, poisoned, atPanic>>

\* ---- Event::subscriber_count -----------------------------------------
subscriber_count(t, e) ==
  LET r == arc[e]
  IN /\ CanCall(t, e, "subscriber_count")
     /\ LockAvailable(r)
     /\ LockOk(r)
     /\ countRets' = [countRets EXCEPT ![r] =
                        @ \cup {<<len(handlers[r]), Cardinality(Live(r))>>}]
     /\ Returned(t)
     /\ AfterPoison(r, "subscriber_count", "ok")
     /\ UNCHANGED <<regVars, eventVars, issued, unsubRets, strayRets, foreignRets,
                    cleared, quiet, unsubFrames, body, poisoned, atPanic>>

\* The invoke thread t is in, as it is kept while a handler of that invoke
\* runs an invoke of its own.
Suspended(t) ==
  [self |-> self[t], args |-> args[t], ids |-> ids[t], snap |-> snap[t],
   snapIssued |-> snapIssued[t], present |-> present[t], delivered |-> delivered[t]]

\* ---- Event::invoke: the snapshot of the keys -------------------------
\* Called from a handler, the invoke runs on top of the one that handler
\* belongs to.
invoke(t, e, a) ==
  LET r == arc[e]
  IN /\ CanCall(t, e, "invoke")
     /\ LockAvailable(r)
     /\ LockOk(r)
     /\ \E v \in Collect(keys(handlers[r])) :
          /\ ids' = [ids EXCEPT ![t] = v]
          /\ snap' = [snap EXCEPT ![t] = v]
     /\ snapIssued' = [snapIssued EXCEPT ![t] = Len(issued[r])]
     /\ outer' = [outer EXCEPT ![t] = IF pc[t] = "idle" THEN @ ELSE <<Suspended(t)>> \o @]
     /\ pc' = [pc EXCEPT ![t] = "inv_loop"]
     /\ self' = [self EXCEPT ![t] = e]
     /\ args' = [args EXCEPT ![t] = a]
     /\ present' = [present EXCEPT ![t] = {}]
     /\ delivered' = [delivered EXCEPT ![t] = <<>>]
     /\ ops' = [ops EXCEPT ![t] = IF pc[t] = "idle" THEN @ + 1 ELSE @]
     /\ AfterPoison(r, "invoke", "ok")
     /\ UNCHANGED <<regVars, eventVars, histVars, body, poisoned, atPanic>>

\* The lookup replaced by "the id was in the snapshot".
Lookup_stale(t, r, id) == id \in Range(snap[t])

\* handlers.handlers.get_mut(&id) is Some
Lookup(t, r, id) == contains_key(handlers[r], id)

\* The payload of whichever invoke started last instead of this one's own.
Payload_shared(t) ==
  LET others == {u \in Threads : u # t /\ pc[u] # "idle"}
  IN IF others = {} THEN args[t] ELSE args[CHOOSE u \in others : TRUE]

\* args.clone()
Payload(t) == args[t]

\* What the closure stored under id adds to its counter when called with x:
\* fetch_add(x as usize, ..) or fetch_add(1, ..).
Amount(r, id, x) == IF body[r][Closure(r, id)] = Adding THEN x ELSE 1

\* The effect of the closures of the tests on what they captured: a
\* fetch_add on the counter and a record of the value received.
Count(t, r, id) ==
  /\ counter' = [counter EXCEPT ![r][Closure(r, id)] = @ + Amount(r, id, Payload(t))]
  /\ runs' = [runs EXCEPT ![r][Closure(r, id)] = @ + 1]
  /\ delivered' = [delivered EXCEPT ![t] = Append(@, <<id, Payload(t)>>)]

\* ---- Event::invoke: one turn of `for id in ids` ----------------------
\* Takes the lock and looks the id up.  A registered handler is entered with
\* the lock held; a missing one is skipped and the guard dropped at once.
\* A closure that calls an Event counts first (test_nested_event_trigger),
\* as it is entered.
invoke_turn(t) ==
  LET r  == arc[self[t]]
      id == Head(ids[t])
  IN /\ pc[t] = "inv_loop"
     /\ ids[t] # <<>>
     /\ LockAvailable(r)
     /\ LockOk(r)
     /\ present' = [present EXCEPT ![t] =
                      IF contains_key(handlers[r], id) THEN @ \cup {id} ELSE @]
     /\ IF Lookup(t, r, id)
          THEN /\ lock' = [lock EXCEPT ![r] = @ \cup {t}]
               /\ pc' = [pc EXCEPT ![t] = "inv_call"]
               /\ UNCHANGED ids
          ELSE /\ ids' = [ids EXCEPT ![t] = Tail(@)]
               /\ UNCHANGED <<lock, pc>>
     /\ IF Lookup(t, r, id) /\ body[r][Closure(r, id)][1] = "call"
          THEN Count(t, r, id)
          ELSE UNCHANGED <<counter, runs, delivered>>
     /\ AfterPoison(r, "invoke", "ok")
     /\ UNCHANGED <<handlers, next_id, eventVars, histVars, ops,
                    self, args, snap, snapIssued, body, outer, poisoned, atPanic>>

\* ---- Event::invoke: handler.call(args.clone()) returns ---------------
\* A counting closure has its effect and returns; a closure that calls an
\* Event returns once that call has.  Then the guard goes out of scope at
\* the end of the loop body.
handler_return(t) ==
  LET r  == arc[self[t]]
      id == Head(ids[t])
  IN /\ \/ pc[t] = "inv_call" /\ Running(t) \in {Counting, Adding}
        \/ pc[t] = "inv_ret"
     /\ IF pc[t] = "inv_call" THEN Count(t, r, id) ELSE UNCHANGED <<counter, runs, delivered>>
     /\ lock' = [lock EXCEPT ![r] = DropGuard(@, t)]
     /\ ids' = [ids EXCEPT ![t] = Tail(@)]
     /\ pc' = [pc EXCEPT ![t] = "inv_loop"]
     /\ UNCHANGED <<handlers, next_id, eventVars, histVars, ops,
                    self, args, snap, snapIssued, present, body, outer, panicVars>>

\* ---- Event::invoke: the loop is exhausted, invoke returns ------------
\* To the thread's own code, or into the handler that called it.
invoke_return(t) ==
  /\ pc[t] = "inv_loop"
  /\ ids[t] = <<>>
  /\ IF outer[t] = <<>>
       THEN /\ pc' = [pc EXCEPT ![t] = "idle"]
            /\ self' = [self EXCEPT ![t] = NoFrame]
            /\ args' = [args EXCEPT ![t] = NoFrame]
            /\ snap' = [snap EXCEPT ![t] = <<>>]
            /\ snapIssued' = [snapIssued EXCEPT ![t] = 0]
            /\ present' = [present EXCEPT ![t] = {}]
            /\ delivered' = [delivered EXCEPT ![t] = <<>>]
            /\ UNCHANGED <<ids, outer>>
       ELSE /\ pc' = [pc EXCEPT ![t] = "inv_ret"]
            /\ self' = [self EXCEPT ![t] = Head(outer[t]).self]
            /\ args' = [args EXCEPT ![t] = Head(outer[t]).args]
            /\ ids' = [ids EXCEPT ![t] = Head(outer[t]).ids]
            /\ snap' = [snap EXCEPT ![t] = Head(outer[t]).snap]
            /\ snapIssued' = [snapIssued EXCEPT ![t] = Head(outer[t]).snapIssued]
            /\ present' = [present EXCEPT ![t] = Head(outer[t]).present]
            /\ delivered' = [delivered EXCEPT ![t] = Head(outer[t]).delivered]
            /\ outer' = [outer EXCEPT ![t] = Tail(@)]
  /\ UNCHANGED <<regVars, eventVars, histVars, ops, body, panicVars>>

\* ---- panics --------------------------------------------------------------
\* A panic leaves the invoke thread t is in.  An invoke called by the thread's
\* own code takes the panic there; an invoke called by a handler passes it to
\* that handler's call, which panics in turn, its guard still held.
Abandon(t) ==
  IF outer[t] = <<>>
    THEN /\ pc' = [pc EXCEPT ![t] = "idle"]
         /\ self' = [self EXCEPT ![t] = NoFrame]
         /\ args' = [args EXCEPT ![t] = NoFrame]
         /\ ids' = [ids EXCEPT ![t] = <<>>]
         /\ snap' = [snap EXCEPT ![t] = <<>>]
         /\ snapIssued' = [snapIssued EXCEPT ![t] = 0]
         /\ present' = [present EXCEPT ![t] = {}]
         /\ delivered' = [delivered EXCEPT ![t] = <<>>]
         /\ UNCHANGED outer
    ELSE /\ pc' = [pc EXCEPT ![t] = "inv_panic"]
         /\ self' = [self EXCEPT ![t] = Head(outer[t]).self]
         /\ args' = [args EXCEPT ![t] = Head(outer[t]).args]
         /\ ids' = [ids EXCEPT ![t] = Head(outer[t]).ids]
         /\ snap' = [snap EXCEPT ![t] = Head(outer[t]).snap]
         /\ snapIssued' = [snapIssued EXCEPT ![t] = Head(outer[t]).snapIssued]
         /\ present' = [present EXCEPT ![t] = Head(outer[t]).present]
         /\ delivered' = [delivered EXCEPT ![t] = Head(outer[t]).delivered]
         /\ outer' = [outer EXCEPT ![t] = Tail(@)]

\* What is kept of the first handler panic of registry r: the invoke it
\* happened in (thread, call number and depth of nesting), the registry as
\* it was, the id of the handler and the ids that invoke had yet to visit.
PanicRecord(t) ==
  LET r == arc[self[t]]
  IN [thread |-> t, call |-> ops[t], depth |-> Len(outer[t]),
      handlers |-> handlers[r], next_id |-> next_id[r],
      runs |-> runs[r], id |-> Head(ids[t]), rest |-> Tail(ids[t])]

\* A panic that is caught around the handler call: the loop goes on.
handler_panic_caught(t) ==
  LET r == arc[self[t]]
  IN /\ pc[t] = "inv_call"
     /\ Running(t) = Panicking
     /\ atPanic' = [atPanic EXCEPT ![r] = IF @ = <<>> THEN <<PanicRecord(t)>> ELSE @]
     /\ lock' = [lock EXCEPT ![r] = DropGuard(@, t)]
     /\ ids' = [ids EXCEPT ![t] = Tail(@)]
     /\ pc' = [pc EXCEPT ![t] = "inv_loop"]
     /\ UNCHANGED <<handlers, next_id, counter, runs, eventVars, histVars, ops,
                    self, args, snap, snapIssued, present, delivered, body, outer,
                    poisoned, postPoison>>

\* ---- handler.call(..) panics -------------------------------------------
\* The closure panics itself, or the call it made has panicked.  The panic
\* unwinds through the loop body of this invoke: the guard of line 92 is
\* dropped while panicking, which poisons the mutex and frees it, and the
\* panic leaves the invoke.  The guards of the invokes further out are
\* dropped in later steps, one invoke at a time.
handler_panic(t) ==
  LET r == arc[self[t]]
  IN /\ \/ pc[t] = "inv_call" /\ Running(t) = Panicking
        \/ pc[t] = "inv_panic"
     /\ atPanic' = [atPanic EXCEPT ![r] = IF @ = <<>> THEN <<PanicRecord(t)>> ELSE @]
     /\ poisoned' = [poisoned EXCEPT ![r] = TRUE]
     /\ lock' = [lock EXCEPT ![r] = DropGuard(@, t)]
     /\ Abandon(t)
     /\ UNCHANGED <<handlers, next_id, counter, runs, eventVars, histVars, ops, body,
                    postPoison>>

\* ---- lock().unwrap() on a poisoned mutex ---------------------------------
\* The first lock of any of the five operations: the mutex is acquired, the
\* result is Err(PoisonError) and unwrap panics, which drops the guard held
\* in the error.  Called by the thread's own code, the call fails there;
\* called by a handler, that handler's call panics.
call_poisoned(t, e, op) ==
  LET r == arc[e]
  IN /\ CanCall(t, e, op)
     /\ LockAvailable(r)
     /\ poisoned[r]
     /\ postPoison' = [postPoison EXCEPT ![r] = @ \cup {<<op, "failed">>}]
     /\ ops' = [ops EXCEPT ![t] = IF pc[t] = "idle" THEN @ + 1 ELSE @]
     /\ pc' = [pc EXCEPT ![t] = IF @ = "idle" THEN "idle" ELSE "inv_panic"]
     /\ UNCHANGED <<regVars, eventVars, histVars, invokeVars, body, outer, poisoned, atPanic>>

\* The lock of a later turn of the loop, in an invoke that took its snapshot
\* before the mutex was poisoned: the unwrap of line 92 panics and the panic
\* leaves the invoke.
turn_poisoned(t) ==
  LET r == arc[self[t]]
  IN /\ pc[t] = "inv_loop"
     /\ ids[t] # <<>>
     /\ LockAvailable(r)
     /\ poisoned[r]
     /\ postPoison' = [postPoison EXCEPT ![r] = @ \cup {<<"invoke", "failed">>}]
     /\ Abandon(t)
     /\ UNCHANGED <<regVars, eventVars, histVars, ops, body, poisoned, atPanic>>

RECURSIVE Sum(_, _)
Sum(f, S) == IF S = {} THEN 0 ELSE LET x == CHOOSE y \in S : TRUE IN f[x] + Sum(f, S \ {x})

\* The callers make MaxCalls API calls in all.
Budget == Sum(ops, Threads) < MaxCalls

Next ==
  \/ new
  \/ \E src \in Events : clone(src)
  \/ \E t \in Threads, e \in Events : Budget /\ subscribe(t, e, Counting)
  \/ \E t \in Threads, e \in Events, id \in Ids :
       Budget /\ unsubscribe(t, e, id, MadeUp)
  \/ \E t \in Threads, e \in Events, id \in Ids, r \in Registries :
       Budget /\ unsubscribe(t, e, id, From(r))
  \/ \E t \in Threads, e \in Events : Budget /\ unsubscribe_all(t, e)
  \/ \E t \in Threads, e \in Events : Budget /\ subscriber_count(t, e)
  \/ \E t \in Threads, e \in Events, a \in ArgValues : Budget /\ invoke(t, e, a)
  \/ \E t \in Threads : invoke_turn(t)
  \/ \E t \in Threads : handler_return(t)
  \/ \E t \in Threads : invoke_return(t)

Spec == Init /\ [][Next]_vars

\* ---- N threads invoking M times each on one subscribed handler ----------
\* (tests.rs, test_thread_safety_trigger_from_multiple_threads): the state
\* after event.subscribe(move |x| count.fetch_add(x ..)) and event.clone(),
\* then nothing but invoke.
InitInvoke ==
  /\ arc = <<1, 1>>
  /\ nregs = 1
  /\ handlers = [r \in Registries |-> IF r = 1 THEN insert(EmptyMap, 0, 0) ELSE EmptyMap]
  /\ next_id = [r \in Registries |-> IF r = 1 THEN 1 ELSE 0]
  /\ lock = [r \in Registries |-> {}]
  /\ counter = [r \in Registries |-> [c \in 0..(MaxSubs - 1) |-> 0]]
  /\ runs = [r \in Registries |-> [c \in 0..(MaxSubs - 1) |-> 0]]
  /\ pc = [t \in Threads |-> "idle"]
  /\ self = [t \in Threads |-> NoFrame]
  /\ args = [t \in Threads |-> NoFrame]
  /\ ids = [t \in Threads |-> <<>>]
  /\ ops = [t \in Threads |-> 0]
  /\ issued = [r \in Registries |-> IF r = 1 THEN <<0>> ELSE <<>>]
  /\ unsubRets = [r \in Registries |-> [h \in Ids |-> <<>>]]
  /\ strayRets = [r \in Registries |-> {}]
  /\ foreignRets = [r \in Registries |-> {}]
  /\ countRets = [r \in Registries |-> {}]
  /\ cleared = [r \in Registries |-> {}]
  /\ quiet = [r \in Registries |-> FALSE]
  /\ unsubFrames = [r \in Registries |-> {}]
  /\ cloneOf = <<1, 1>>
  /\ snap = [t \in Threads |-> <<>>]
  /\ snapIssued = [t \in Threads |-> 0]
  /\ present = [t \in Threads |-> {}]
  /\ delivered = [t \in Threads |-> <<>>]
  /\ body = [r \in Registries |-> [c \in 0..(MaxSubs - 1) |->
               IF r = 1 /\ c = 0 THEN Adding ELSE Counting]]
  /\ outer = [t \in Threads |-> <<>>]
  /\ poisoned = [r \in Registries |-> FALSE]
  /\ postPoison = [r \in Registries |-> {}]
  /\ atPanic = [r \in Registries |-> <<>>]

NextInvoke ==
  \/ \E t \in Threads, e \in Events, a \in ArgValues :
       ops[t] < NumInvokes /\ invoke(t, e, a)
  \/ \E t \in Threads : invoke_turn(t)
  \/ \E t \in Threads : handler_return(t)
  \/ \E t \in Threads : invoke_return(t)

SpecInvoke == InitInvoke /\ [][NextInvoke]_vars

\* ---- fairness --------------------------------------------------------------
\* The steps of a call that thread t has in flight: the turns of its invoke,
\* the call its handler makes (any of the five operations), the returns, the
\* panic of a handler and the panic of an unwrap.  The
\* scheduler lets a thread that can run do so eventually; it does not make a
\* thread start a call.
Progress(t) ==
  \/ invoke_turn(t)
  \/ handler_return(t)
  \/ invoke_return(t)
  \/ handler_panic(t)
  \/ turn_poisoned(t)
  \/ pc[t] = "inv_call" /\
       \E e \in Events :
         \/ \E h \in {Counting, Adding, Panicking} : subscribe(t, e, h)
         \/ \E id \in Ids : unsubscribe(t, e, id, MadeUp)
         \/ unsubscribe_all(t, e)
         \/ subscriber_count(t, e)
         \/ \E a \in ArgValues : invoke(t, e, a)
         \/ \E op \in Operations : call_poisoned(t, e, op)

\* ---- a handler of one bus invoking another bus ---------------------------
\* (tests.rs, test_nested_event_trigger): event1 = Event::new(), event2 =
\* Event::new(); the handlers of event1 count or call event2.invoke(..), the
\* handlers of event2 count.  Threads subscribe and invoke on both.
InitNested ==
  /\ arc = <<1, 2>>
  /\ nregs = 2
  /\ handlers = [r \in Registries |-> EmptyMap]
  /\ next_id = [r \in Registries |-> 0]
  /\ lock = [r \in Registries |-> {}]
  /\ counter = [r \in Registries |-> [c \in 0..(MaxSubs - 1) |-> 0]]
  /\ runs = [r \in Registries |-> [c \in 0..(MaxSubs - 1) |-> 0]]
  /\ pc = [t \in Threads |-> "idle"]
  /\ self = [t \in Threads |-> NoFrame]
  /\ args = [t \in Threads |-> NoFrame]
  /\ ids = [t \in Threads |-> <<>>]
  /\ ops = [t \in Threads |-> 0]
  /\ issued = [r \in Registries |-> <<>>]
  /\ unsubRets = [r \in Registries |-> [h \in Ids |-> <<>>]]
  /\ strayRets = [r \in Registries |-> {}]
  /\ foreignRets = [r \in Registries |-> {}]
  /\ countRets = [r \in Registries |-> {}]
  /\ cleared = [r \in Registries |-> {}]
  /\ quiet = [r \in Registries |-> FALSE]
  /\ unsubFrames = [r \in Registries |-> {}]
  /\ cloneOf = <<1, 2>>
  /\ snap = [t \in Threads |-> <<>>]
  /\ snapIssued = [t \in Threads |-> 0]
  /\ present = [t \in Threads |-> {}]
  /\ delivered = [t \in Threads |-> <<>>]
  /\ body = [r \in Registries |-> [c \in 0..(MaxSubs - 1) |-> Counting]]
  /\ outer = [t \in Threads |-> <<>>]
  /\ poisoned = [r \in Registries |-> FALSE]
  /\ postPoison = [r \in Registries |-> {}]
  /\ atPanic = [r \in Registries |-> <<>>]

NextNested ==
  \/ \E t \in Threads, h \in {Counting, Calling("invoke", 2)} :
       Budget /\ subscribe(t, 1, h)
  \/ \E t \in Threads : Budget /\ subscribe(t, 2, Counting)
  \/ \E t \in Threads, e \in {1, 2}, a \in ArgValues :
       (Budget \/ pc[t] = "inv_call") /\ invoke(t, e, a)
  \/ \E t \in Threads : invoke_turn(t)
  \/ \E t \in Threads : handler_return(t)
  \/ \E t \in Threads : invoke_return(t)

SpecNested ==
  InitNested /\ [][NextNested]_vars /\ \A t \in Threads : WF_vars(Progress(t))

\* ---- handlers that call buses --------------------------------------------
\* Two buses as in InitNested.  A closure subscribed to an Event counts, or
\* calls an operation on either bus.  (A closure that subscribes does so on
\* the bus it is subscribed to: on the other bus its subscribes would run
\* into MaxSubs, which bounds the model and not the program.)  Every invoke
\* passes the same payload.
HandlerBodies(e) ==
  {Counting}
    \cup {Calling(op, e2) : op \in Operations \ {"subscribe"}, e2 \in DOMAIN arc}
    \cup {Calling("subscribe", e)}

\* The buses are set up before they are used: the subscribes of the threads'
\* own code are the first calls made, all by one thread, MaxCallers to a bus.
Setup(t) ==
  /\ t = 1
  /\ Sum(ops, Threads) = Sum([r \in Registries |-> Len(issued[r])], Registries)

NextHandlers ==
  \/ \E t \in Threads, e \in DOMAIN arc : \E h \in HandlerBodies(e) :
       ((Budget /\ Setup(t) /\ Len(issued[arc[e]]) < MaxCallers) \/ pc[t] = "inv_call")
         /\ subscribe(t, e, h)
  \/ \E t \in Threads, e \in DOMAIN arc, id \in Ids :
       pc[t] = "inv_call" /\ unsubscribe(t, e, id, MadeUp)
  \/ \E t \in Threads, e \in DOMAIN arc : pc[t] = "inv_call" /\ unsubscribe_all(t, e)
  \/ \E t \in Threads, e \in DOMAIN arc : pc[t] = "inv_call" /\ subscriber_count(t, e)
  \/ \E t \in Threads, e \in DOMAIN arc :
       (Budget \/ pc[t] = "inv_call") /\ invoke(t, e, 1)
  \/ \E t \in Threads : invoke_turn(t)
  \/ \E t \in Threads : handler_return(t)
  \/ \E t \in Threads : invoke_return(t)

SpecHandlers ==
  InitNested /\ [][NextHandlers]_vars /\ \A t \in Threads : WF_vars(Progress(t))

\* ---- one bus and a clone of it -------------------------------------------
\* event = Event::new(); event.clone(): two Events on one registry.
InitShared ==
  /\ arc = <<1, 1>>
  /\ nregs = 1
  /\ handlers = [r \in Registries |-> EmptyMap]
  /\ next_id = [r \in Registries |-> 0]
  /\ lock = [r \in Registries |-> {}]
  /\ counter = [r \in Registries |-> [c \in 0..(MaxSubs - 1) |-> 0]]
  /\ runs = [r \in Registries |-> [c \in 0..(MaxSubs - 1) |-> 0]]
  /\ pc = [t \in Threads |-> "idle"]
  /\ self = [t \in Threads |-> NoFrame]
  /\ args = [t \in Threads |-> NoFrame]
  /\ ids = [t \in Threads |-> <<>>]
  /\ ops = [t \in Threads |-> 0]
  /\ issued = [r \in Registries |-> <<>>]
  /\ unsubRets = [r \in Registries |-> [h \in Ids |-> <<>>]]
  /\ strayRets = [r \in Registries |-> {}]
  /\ foreignRets = [r \in Registries |-> {}]
  /\ countRets = [r \in Registries |-> {}]
  /\ cleared = [r \in Registries |-> {}]
  /\ quiet = [r \in Registries |-> FALSE]
  /\ unsubFrames = [r \in Registries |-> {}]
  /\ cloneOf = <<1, 1>>
  /\ snap = [t \in Threads |-> <<>>]
  /\ snapIssued = [t \in Threads |-> 0]
  /\ present = [t \in Threads |-> {}]
  /\ delivered = [t \in Threads |-> <<>>]
  /\ body = [r \in Registries |-> [c \in 0..(MaxSubs - 1) |-> Counting]]
  /\ outer = [t \in Threads |-> <<>>]
  /\ poisoned = [r \in Registries |-> FALSE]
  /\ postPoison = [r \in Registries |-> {}]
  /\ atPanic = [r \in Registries |-> <<>>]

\* ---- handlers that panic -------------------------------------------------
\* The closures subscribed count or panic; the threads make all five calls.
NextPanic ==
  \/ \E t \in Threads, e \in DOMAIN arc, h \in {Counting, Panicking} :
       Budget /\ subscribe(t, e, h)
  \/ \E t \in Threads, e \in DOMAIN arc, id \in Ids :
       Budget /\ unsubscribe(t, e, id, MadeUp)
  \/ \E t \in Threads, e \in DOMAIN arc : Budget /\ unsubscribe_all(t, e)
  \/ \E t \in Threads, e \in DOMAIN arc : Budget /\ subscriber_count(t, e)
  \/ \E t \in Threads, e \in DOMAIN arc, a \in ArgValues : Budget /\ invoke(t, e, a)
  \/ \E t \in Threads : invoke_turn(t)
  \/ \E t \in Threads : handler_return(t)
  \/ \E t \in Threads : invoke_return(t)
  \/ \E t \in Threads : handler_panic(t)
  \/ \E t \in Threads, e \in DOMAIN arc, op \in Operations :
       Budget /\ call_poisoned(t, e, op)
  \/ \E t \in Threads : turn_poisoned(t)

SpecPanic == InitShared /\ [][NextPanic]_vars

\* ---- a panic that crosses two buses ---------------------------------------
\* Two buses: the closures of the first count or invoke the second, those of
\* the second count or panic; the threads make all five calls.  A panic of
\* the second bus raised under a handler of the first unwinds through both
\* invokes.  An invoke carries any payload, the one a handler makes included
\* (the test's closure passes x * 2).
NextUnwind ==
  \/ \E t \in Threads, h \in {Counting, Calling("invoke", 2)} :
       Budget /\ subscribe(t, 1, h)
  \/ \E t \in Threads, h \in {Counting, Panicking} :
       Budget /\ subscribe(t, 2, h)
  \/ \E t \in Threads, e \in {1, 2}, id \in Ids :
       Budget /\ unsubscribe(t, e, id, MadeUp)
  \/ \E t \in Threads, e \in {1, 2} : Budget /\ unsubscribe_all(t, e)
  \/ \E t \in Threads, e \in {1, 2} : Budget /\ subscriber_count(t, e)
  \/ \E t \in Threads, e \in {1, 2}, a \in ArgValues :
       (Budget \/ pc[t] = "inv_call") /\ invoke(t, e, a)
  \/ \E t \in Threads : invoke_turn(t)
  \/ \E t \in Threads : handler_return(t)
  \/ \E t \in Threads : invoke_return(t)
  \/ \E t \in Threads : handler_panic(t)
  \/ \E t \in Threads, e \in {1, 2}, op \in Operations :
       (Budget \/ pc[t] = "inv_call") /\ call_poisoned(t, e, op)
  \/ \E t \in Threads : turn_poisoned(t)

SpecUnwind == InitNested /\ [][NextUnwind]_vars

\* ---- threads making all five calls on clones of one bus ------------------
\* (tests.rs, test_thread_safety_mixed_operations): the closures subscribed
\* count and return; a thread that is inside a call gets to take its steps.
NextShared ==
  \/ \E t \in Threads, e \in DOMAIN arc : Budget /\ subscribe(t, e, Counting)
  \/ \E t \in Threads, e \in DOMAIN arc, id \in Ids :
       Budget /\ unsubscribe(t, e, id, MadeUp)
  \/ \E t \in Threads, e \in DOMAIN arc : Budget /\ unsubscribe_all(t, e)
  \/ \E t \in Threads, e \in DOMAIN arc : Budget /\ subscriber_count(t, e)
  \/ \E t \in Threads, e \in DOMAIN arc, a \in ArgValues : Budget /\ invoke(t, e, a)
  \/ \E t \in Threads : invoke_turn(t)
  \/ \E t \in Threads : handler_return(t)
  \/ \E t \in Threads : invoke_return(t)

SpecShared ==
  InitShared /\ [][NextShared]_vars /\ \A t \in Threads : WF_vars(Progress(t))

TypeOK ==
  /\ Len(arc) \in Events /\ \A e \in DOMAIN arc : arc[e] \in 1..nregs
  /\ nregs \in Registries
  /\ \A r \in Registries : keys(handlers[r]) \subseteq Ids /\ next_id[r] \in 0..MaxSubs
  /\ \A r \in Registries : lock[r] \subseteq Threads
  /\ \A t \in Threads : pc[t] \in {"idle", "inv_loop", "inv_call", "inv_ret", "inv_panic"}

\* ==== Properties ==========================================================

\* The registry thread t's current invoke works on.
RegOf(t) == arc[self[t]]

\* Number of handler calls of t's current invoke that went to handle id.
Times(t, id) == Cardinality({i \in DOMAIN delivered[t] : delivered[t][i][1] = id})

\* The handles for which an unsubscribe returned true.
Unsubscribed(r) == {h \in Ids : TRUE \in Range(unsubRets[r][h])}

\* No call is in flight and no guard is held.
Quiescent ==
  /\ \A t \in Threads : pc[t] = "idle"
  /\ \A r \in Registries : lock[r] = {}

\* C1: in every invoke, each handle of the snapshot whose turn has passed was
\* called exactly once if it was still registered at its turn and not at all
\* otherwise; no handle is called before its turn or outside the snapshot;
\* and every call received the argument of that same invoke.
InvokeDelivery ==
  \A t \in Threads : pc[t] # "idle" =>
    /\ \A id \in Ids :
         Times(t, id) =
           IF id \in Range(snap[t]) /\ id \notin Range(ids[t]) /\ id \in present[t]
             THEN 1 ELSE 0
    /\ \A i \in DOMAIN delivered[t] : delivered[t][i][2] = args[t]

\* Two invokes with different arguments have both called a handler, and one
\* of them has finished its loop.
InvokeDeliveryWitness ==
  \E t, u \in Threads :
    /\ t # u /\ pc[t] = "inv_loop" /\ ids[t] = <<>> /\ delivered[t] # <<>>
    /\ pc[u] # "idle" /\ delivered[u] # <<>> /\ args[u] # args[t]
    /\ RegOf(t) = RegOf(u)

\* C2: the handles one registry's subscribe calls returned are pairwise
\* distinct, also when an earlier handle was removed in between.
HandlesUnique ==
  \A r \in Registries : \A i, j \in DOMAIN issued[r] :
    issued[r][i] = issued[r][j] => i = j

\* A second handle was issued after unsubscribe_all removed the first.
HandlesUniqueWitness ==
  \E r \in Registries :
    /\ Len(issued[r]) = 2
    /\ cleared[r] = {issued[r][1]}
    /\ issued[r][2] \in keys(handlers[r])

\* C3: of the unsubscribe(h) calls made once h was issued, at most one returns
\* true; if no unsubscribe_all removed h, the first of them returns true; and
\* unsubscribe of a handle the registry has not issued returns false.
UnsubscribeOnce ==
  \A r \in Registries :
    /\ \A h \in Ids :
         LET rs == unsubRets[r][h]
         IN /\ \A i, j \in DOMAIN rs : (rs[i] /\ rs[j]) => i = j
            /\ (rs # <<>> /\ h \notin cleared[r]) => rs[1]
    /\ \A p \in strayRets[r] : p[2] = FALSE

\* unsubscribe(h) returned true, then false, and an unsubscribe of a handle
\* not issued has returned.
UnsubscribeOnceWitness ==
  \E r \in Registries, h \in Ids :
    /\ unsubRets[r][h] = <<TRUE, FALSE>>
    /\ strayRets[r] # {}

\* C4 (as claimed): every unsubscribe on one registry of a handle that another
\* registry's subscribe returned gives false and removes nothing.
ForeignHandleNoOp ==
  \A r \in Registries : \A p \in foreignRets[r] : p[1] = FALSE /\ p[2] = 0

\* C5: whenever no call is in flight, the subscriber count of a registry is
\* the number of handles issued and not removed since, and every
\* subscriber_count call returned that number.
CountMatchesLive ==
  /\ Quiescent => \A r \in Registries : len(handlers[r]) = Cardinality(Live(r))
  /\ \A r \in Registries : \A p \in countRets[r] : p[1] = p[2]

\* Two handles issued, one unsubscribed, and subscriber_count called after.
CountMatchesLiveWitness ==
  /\ Quiescent
  /\ \E r \in Registries :
       /\ Len(issued[r]) = 2
       /\ Cardinality(Unsubscribed(r)) = 1
       /\ <<1, 1>> \in countRets[r]

\* C6: no handler runs under a handle for which unsubscribe has returned true.
NoCallAfterUnsubscribe ==
  \A t \in Threads :
    pc[t] = "inv_call" => Head(ids[t]) \notin Unsubscribed(RegOf(t))

\* An invoke skipped a handle of its snapshot that was unsubscribed before its
\* turn, and went on to call a later handle of the snapshot.
NoCallAfterUnsubscribeWitness ==
  \E t \in Threads : \E i, j \in DOMAIN snap[t] :
    /\ pc[t] # "idle" /\ i < j
    /\ snap[t][i] \in Unsubscribed(RegOf(t))
    /\ snap[t][i] \notin present[t]
    /\ Times(t, snap[t][j]) = 1

\* C7: from the return of unsubscribe_all until the next subscribe, the
\* subscriber count is 0 and no handler of the registry runs.
AfterUnsubscribeAll ==
  \A r \in Registries : quiet[r] =>
    /\ len(handlers[r]) = 0
    /\ \A t \in Threads : ~(pc[t] = "inv_call" /\ RegOf(t) = r)

\* One thread subscribed, called unsubscribe_all and is now inside a
\* following invoke; no other thread has made a call.
AfterUnsubscribeAllWitness ==
  \E r \in Registries, t \in Threads :
    /\ quiet[r] /\ cleared[r] # {}
    /\ pc[t] = "inv_loop" /\ RegOf(t) = r
    /\ \A u \in Threads \ {t} : ops[u] = 0

\* C8: at most one handler of a registry is running at any time.
HandlersSerialized ==
  \A r \in Registries :
    Cardinality({t \in Threads : pc[t] = "inv_call" /\ RegOf(t) = r}) <= 1

\* A handler runs while an invoke made through another clone of the same bus
\* waits to call its next handler.
HandlersSerializedWitness ==
  \E t, u \in Threads :
    /\ pc[t] = "inv_call" /\ pc[u] = "inv_loop" /\ ids[u] # <<>>
    /\ self[t] # self[u] /\ RegOf(t) = RegOf(u)

\* Every thread has made its NumInvokes invokes and returned.
AllInvokesDone == \A t \in Threads : ops[t] = NumInvokes /\ pc[t] = "idle"

\* C9: once NumThreads threads have each finished NumInvokes invokes on the
\* bus with one handler, that handler has run NumThreads * NumInvokes times.
InvokeCountExact ==
  AllInvokesDone => runs[1][0] = NumThreads * NumInvokes

\* All threads have finished, and the counter the handler adds its payloads
\* to shows that payloads other than 1 were among them.
InvokeCountExactWitness ==
  AllInvokesDone /\ runs[1][0] > 0 /\ counter[1][0] > runs[1][0]

\* C10: an Event and the Event it was cloned from observe the same subscriber
\* count and the same set of registered handles.
CloneShares ==
  \A e \in DOMAIN arc :
    /\ len(handlers[arc[e]]) = len(handlers[arc[cloneOf[e]]])
    /\ keys(handlers[arc[e]]) = keys(handlers[arc[cloneOf[e]]])

\* A clone exists of a bus on which handles were issued and one was removed.
CloneSharesWitness ==
  \E e \in DOMAIN arc :
    /\ cloneOf[e] # e
    /\ Live(arc[e]) # {}
    /\ Removed(arc[e]) # {}

\* C15: next_id starts at 0 and counts the subscribe calls of the registry and
\* nothing else: the k-th subscribe returned the handle k-1, whatever calls
\* came in between, and every registered handle is smaller than next_id.
CounterCountsSubscribes ==
  \A r \in Registries :
    /\ next_id[r] = Len(issued[r])
    /\ \A k \in DOMAIN issued[r] : issued[r][k] = k - 1
    /\ \A h \in keys(handlers[r]) : h < next_id[r]

\* A registry has issued two handles, and both an unsubscribe_all and an
\* unsubscribe that returned true have removed one.
CounterCountsSubscribesWitness ==
  \E r \in Registries :
    /\ Len(issued[r]) = 2
    /\ cleared[r] # {}
    /\ Unsubscribed(r) # {}

\* C16: an unsubscribe that returned true removed its own entry, lost or
\* changed no other entry, added none and left next_id alone; one that
\* returned false left the map and next_id as they were.
UnsubscribeFrame ==
  \A r \in Registries : \A f \in unsubFrames[r] :
    /\ f[2] = f[1]
    /\ f[3] = {}
    /\ f[4] = {}
    /\ f[5] = 0

\* On a registry with another handler registered, one unsubscribe returned
\* true and one returned false.
UnsubscribeFrameWitness ==
  \E r \in Registries :
    /\ \E f, g \in unsubFrames[r] : f[1] /\ ~g[1]
    /\ Live(r) # {}

\* The handles a registry issued after thread t's current invoke took its
\* snapshot.
Late(t) == {issued[RegOf(t)][k] : k \in (snapIssued[t] + 1)..Len(issued[RegOf(t)])}

\* C17: an invoke never calls a handler whose handle was issued after it took
\* its snapshot.
LateSubscriberNotCalled ==
  \A t \in Threads : pc[t] # "idle" =>
    /\ \A h \in Late(t) : Times(t, h) = 0
    /\ pc[t] = "inv_call" => Head(ids[t]) \notin Late(t)

\* An invoke has called a handler and finished its loop, and a handler
\* subscribed after its snapshot, before its first call, is registered.
LateSubscriberNotCalledWitness ==
  \E t \in Threads :
    /\ pc[t] = "inv_loop" /\ ids[t] = <<>> /\ delivered[t] # <<>>
    /\ \E h \in Late(t) : contains_key(handlers[RegOf(t)], h)

\* Thread t is in a handler of event 1 whose closure invokes event 2.
InvokesOther(t) ==
  /\ pc[t] = "inv_call"
  /\ outer[t] = <<>>
  /\ Running(t) = Calling("invoke", 2)

\* Thread t has run the loop of an invoke made by a handler to its end.
InnerDone(t) == outer[t] # <<>> /\ pc[t] = "inv_loop" /\ ids[t] = <<>>

\* C11: a handler of bus A (event 1) that invokes a different bus B (event 2)
\* completes without deadlock: the thread gets out of the handler, and the
\* outer invoke on A returns to the caller.  The inner invoke calls every
\* handler that was registered on B when it started (here none is removed),
\* once each.
NestedInvokeCompletes ==
  /\ [](\A t \in Threads : InnerDone(t) =>
          \A k \in 1..snapIssued[t] : Times(t, issued[RegOf(t)][k]) = 1)
  /\ \A t \in Threads : InvokesOther(t) ~> (pc[t] = "idle")

\* Every thread is back in its own code after an invoke on A whose handler
\* invoked B, where two handlers are registered: A's handler has returned and
\* both handlers of B have been called.
NestedInvokeCompletesWitness ==
  /\ \A t \in Threads : pc[t] = "idle"
  /\ body[1][0] = Calling("invoke", 2)
  /\ counter[1][0] = 1
  /\ counter[2][0] = 1 /\ counter[2][1] = 1

\* The closures subscribed so far that call an Event: <<registry, closure>>.
Callers ==
  {p \in Registries \X (0..(MaxSubs - 1)) :
     p[2] < Len(issued[p[1]]) /\ body[p[1]][p[2]][1] = "call"}

\* <<r, r2>>: a handler subscribed to bus r calls bus r2.
CallEdges == {<<p[1], arc[body[p[1]][p[2]][3]]>> : p \in Callers}

\* The buses reached from those of S over at most n calls.
RECURSIVE CallReach(_, _)
CallReach(S, n) ==
  IF n = 0 THEN S
  ELSE CallReach(S \cup {c[2] : c \in {d \in CallEdges : d[1] \in S}}, n - 1)

\* Each handler calls only buses other than the one it is subscribed to.
OnlyOtherBuses == \A c \in CallEdges : c[1] # c[2]

\* No chain of handler calls leads from a bus back to itself.
NoCallCycle ==
  \A r \in Registries : r \notin CallReach({c[2] : c \in {d \in CallEdges : d[1] = r}}, MaxRegs)

\* C12 as stated: where each handler calls only buses other than the one
\* dispatching it, every invoke issued by any thread eventually returns.
CrossBusInvokeReturns ==
  []OnlyOtherBuses => \A t \in Threads : (pc[t] # "idle") ~> (pc[t] = "idle")

\* C12, amended: where no chain of handler calls leads from a bus back to
\* itself, every invoke issued by any thread eventually returns, whatever
\* the other threads are invoking.
AcyclicInvokeReturns ==
  []NoCallCycle => \A t \in Threads : (pc[t] # "idle") ~> (pc[t] = "idle")

\* No chain of handler calls leads back: a thread is in the invoke on bus 2
\* that a handler of bus 1 made, while another thread is in a handler of an
\* invoke it made on bus 2 itself.
AcyclicInvokeReturnsWitness ==
  /\ NoCallCycle
  /\ \E t, u \in Threads :
       /\ outer[t] # <<>> /\ pc[t] = "inv_loop" /\ arc[self[t]] = 2
       /\ outer[u] = <<>> /\ pc[u] = "inv_call" /\ arc[self[u]] = 2

\* Thread t is in a handler whose closure calls the bus that is dispatching it.
Reentrant(t) ==
  /\ pc[t] = "inv_call"
  /\ Running(t)[1] = "call"
  /\ arc[Running(t)[3]] = arc[self[t]]

\* C13: a handler that calls subscribe, unsubscribe, unsubscribe_all,
\* subscriber_count or invoke on the bus that is dispatching it never returns
\* from that call: from then on the thread is in that handler, waiting for
\* the lock it holds itself, and the enclosing invoke does not complete.
ReentrantCallBlocks ==
  [][\A t \in Threads :
       Reentrant(t) => Reentrant(t)' /\ t \in lock'[arc[self[t]]]]_vars

\* A thread is in a handler that calls the bus dispatching it, and the other
\* thread is in an invoke on that bus with a handler still to visit.
ReentrantCallBlocksWitness ==
  \E t, u \in Threads :
    /\ Reentrant(t)
    /\ pc[u] = "inv_loop" /\ ids[u] # <<>> /\ arc[self[u]] = arc[self[t]]

\* The invoke in which the first handler panic of registry r happened is
\* still running.
FailedInvokeRunning(r) ==
  /\ ops[atPanic[r][1].thread] = atPanic[r][1].call
  /\ pc[atPanic[r][1].thread] # "idle"
  /\ Len(outer[atPanic[r][1].thread]) >= atPanic[r][1].depth

\* C14: once a handler has panicked during a dispatch, that invoke is over
\* (the panic left it), the registry's mutex is poisoned and stays so, and
\* every call that takes the mutex afterwards, whatever the operation, the
\* thread and the clone it is made through, fails: none succeeds.
PoisonedForGood ==
  \A r \in Registries : atPanic[r] # <<>> =>
    /\ poisoned[r]
    /\ ~FailedInvokeRunning(r)
    /\ \A x \in postPoison[r] : x[2] = "failed"

\* After a handler panicked on one thread, the other thread has made two
\* calls in all, and two different calls made on the poisoned mutex failed.
PoisonedForGoodWitness ==
  \E r \in Registries, t \in Threads :
    /\ atPanic[r] # <<>>
    /\ atPanic[r][1].thread # t
    /\ ops[t] = 2
    /\ Cardinality(postPoison[r]) = 2

\* C19: when a handler panics in the middle of a dispatch, the registry stays
\* as it was at that moment (every handler, the failing one included, is
\* still registered and next_id is the same), and no handler is called any
\* more: the ids that invoke had yet to visit are never visited by it.
PanicLeavesRegistry ==
  \A r \in Registries : atPanic[r] # <<>> =>
    /\ handlers[r] = atPanic[r][1].handlers
    /\ contains_key(handlers[r], atPanic[r][1].id)
    /\ next_id[r] = atPanic[r][1].next_id
    /\ runs[r] = atPanic[r][1].runs
    /\ ~FailedInvokeRunning(r)

\* A handler of the second bus panicked in an invoke made by a handler of
\* the first, whose call panicked with it while another handler of its
\* snapshot, still registered, had not had its turn; every thread is back in
\* its own code.
PanicLeavesRegistryWitness ==
  /\ atPanic[1] # <<>> /\ atPanic[2] # <<>>
  /\ atPanic[1][1].thread = atPanic[2][1].thread
  /\ atPanic[1][1].call = atPanic[2][1].call
  /\ atPanic[1][1].depth = 0 /\ atPanic[2][1].depth = 1
  /\ atPanic[1][1].rest # <<>>
  /\ contains_key(handlers[1], Head(atPanic[1][1].rest))
  /\ \A t \in Threads : pc[t] = "idle"

\* C18: with threads making finitely many calls on clones of one bus and
\* handlers that only count, under weak fairness of the threads every call
\* returns: a thread inside invoke gets out of it, a lock that is held is
\* released again, so no thread waits for it for ever, and when no call is
\* in flight no thread holds the lock.
CallsReturn ==
  /\ \A t \in Threads : (pc[t] # "idle") ~> (pc[t] = "idle")
  /\ \A r \in Registries : (lock[r] # {}) ~> (lock[r] = {})
  /\ []((\A t \in Threads : pc[t] = "idle") => \A r \in Registries : lock[r] = {})

\* One thread is in a handler, holding the lock, while the other is inside an
\* invoke made through the other Event with a handler still to visit, and
\* both have made calls before.
CallsReturnWitness ==
  \E t, u \in Threads :
    /\ pc[t] = "inv_call" /\ t \in lock[arc[self[t]]]
    /\ pc[u] = "inv_loop" /\ ids[u] # <<>> /\ self[u] # self[t]
    /\ ops[t] = 2 /\ ops[u] = 2

====
